---- MODULE Spec2Model ----
(***************************************************************************)
(* Model of src/js/main.js: the client-side behaviour of the Proxy UI      *)
(* documentation page (section switching, sidebar drawer, scroll spy,      *)
(* copy-to-clipboard feedback).                                             *)
(*                                                                         *)
(* The page state lives in the document: class lists of the sections, the  *)
(* navigation items, the sidebar and the copy control, the inline style of *)
(* <body>, the URL hash and the viewport width.  Every handler of main.js  *)
(* is one action; a handler that calls another one (Alt+M -> toggleSidebar,*)
(* initial load -> showSection) contains the callee's effect.              *)
(***************************************************************************)
EXTENDS Naturals, Sequences, FiniteSets, TLC

(***************************************************************************)
(* The document the script runs against.  main.js fixes only its shape     *)
(* (.content-section elements with ids, .nav-item elements whose onclick   *)
(* attribute calls showSection, #sidebar, .menu-toggle); the concrete ids  *)
(* are those of the scenario in the specification plus one section that    *)
(* no navigation item points to.                                           *)
(***************************************************************************)
SectionIds == {"intro", "api", "faq", "about"}

NavOrder == <<"nav-intro", "nav-api", "nav-faq">>

NavItems == {NavOrder[i] : i \in 1..Len(NavOrder)}

NavTarget == [n \in NavItems |->
                 CASE n = "nav-intro" -> "intro"
                   [] n = "nav-api"   -> "api"
                   [] n = "nav-faq"   -> "faq"]

NoElement == "null"

DefaultSection == "intro"

DefaultNav == "nav-intro"

\* The onclick attribute of a navigation item: showSection('<id>', this).
OnclickAttr(n) == "showSection('" \o NavTarget[n] \o "', this)"

Breakpoint == 768

\* Viewport widths: narrow, exactly at the breakpoint, just above, wide.
Widths == {480, Breakpoint, Breakpoint + 1, 1024}

\* Section keys a caller may pass / the URL may carry: the real ids, a key
\* that occurs nowhere, and a proper fragment of a real id.
UnknownKeys == {"nope", "ap"}

Keys == SectionIds \cup UnknownKeys

Hashes == Keys \cup {""}

ClickTargets == {"sidebar", "toggle", "content"}

KeyNames == {"Escape", "m", "M", "x"}

VARIABLES
    phase,            \* "loading" until DOMContentLoaded has run, then "ready"
    activeSections,   \* ids of the .content-section elements carrying 'active'
    activeNav,        \* the .nav-item elements carrying 'active'
    hash,             \* window.location.hash without the leading '#'
    sidebarOpen,      \* #sidebar carries 'open'
    bodyOverflow,     \* document.body.style.overflow
    innerWidth,       \* window.innerWidth
    last,             \* history: the handler that ran last, with its arguments
    toggleRun         \* history: the sidebar as each of the toggleSidebar calls
                      \* that ran last, back to back, found it (two at most)

uiVars == <<phase, activeSections, activeNav, hash, sidebarOpen, bodyOverflow,
            innerWidth, last, toggleRun>>

VARIABLES
    btn,              \* the copy control: innerHTML, class list, inline colours
    timers,           \* pending setTimeout callbacks of the control, oldest first
    inflight,         \* copyCode calls suspended at await clipboard.writeText
    clipboard,        \* text on the system clipboard
    textAreas,        \* <textarea> elements the fallback has left in <body>
    btnContext,       \* what surrounds the control: "code", "noCode", "noContainer"
    hasClipboardApi,  \* navigator.clipboard && navigator.clipboard.writeText
    burst             \* history: the calls since the control was last at rest

copyVars == <<btn, timers, inflight, clipboard, textAreas, btnContext,
              hasClipboardApi, burst>>

vars == <<uiVars, copyVars>>

(***************************************************************************)
(* DOM lookups                                                              *)
(***************************************************************************)
\* s.includes(t): t occurs in s as a contiguous substring.
Contains(s, t) ==
    \E i \in 1..(Len(s) + 1) :
        /\ i + Len(t) - 1 <= Len(s)
        /\ SubSeq(s, i, i + Len(t) - 1) = t

getElementById(id) == IF id \in SectionIds THEN id ELSE NoElement

\* document.querySelector(`[onclick*="${text}"]`): the first element in
\* document order whose onclick attribute contains text.
querySelectorOnclick(text) ==
    LET hits == {i \in 1..Len(NavOrder) : Contains(OnclickAttr(NavOrder[i]), text)}
    IN  IF hits = {} THEN NoElement
        ELSE NavOrder[CHOOSE i \in hits : \A j \in hits : i <= j]

(***************************************************************************)
(* The page as a record, so that a handler is a function from page to page *)
(***************************************************************************)
Page == [sections |-> activeSections, nav |-> activeNav, hash |-> hash,
         open |-> sidebarOpen, overflow |-> bodyOverflow]

Becomes(p) ==
    /\ activeSections' = p.sections
    /\ activeNav' = p.nav
    /\ hash' = p.hash
    /\ sidebarOpen' = p.open
    /\ bodyOverflow' = p.overflow

(***************************************************************************)
(* History kept beside the page: which handler ran last and with which     *)
(* arguments, and what the sidebar looked like before each call of an      *)
(* unbroken run of toggleSidebar calls.                                    *)
(***************************************************************************)
Sidebar(p) == [open |-> p.open, overflow |-> p.overflow]

LastTwo(s) == IF Len(s) > 2 THEN Tail(s) ELSE s

Remember(op, key, el, alt) ==
    /\ last' = [op |-> op, key |-> key, el |-> el, alt |-> alt]
    /\ toggleRun' = IF op = "toggleSidebar"
                    THEN LastTwo(Append(toggleRun, Sidebar(Page)))
                    ELSE <<>>

(***************************************************************************)
(* showSection(sectionId, element)                                          *)
(***************************************************************************)
\* Every .content-section loses 'active'; the target, if found, gains it.
SectionsAfterShowKeepOthers(sections, sectionId) ==
    LET targetSection == getElementById(sectionId)
    IN  IF targetSection # NoElement THEN sections \cup {targetSection} ELSE sections

SectionsAfterShow(sections, sectionId) ==
    LET hidden == sections \ SectionIds
        targetSection == getElementById(sectionId)
    IN  IF targetSection # NoElement THEN hidden \cup {targetSection} ELSE hidden

\* Every .nav-item loses 'active'; the element passed in, if any, gains it.
NavAfterShowKeepOthers(nav, element) ==
    IF element # NoElement THEN nav \cup {element} ELSE nav

NavAfterShow(nav, element) ==
    LET cleared == nav \ NavItems
    IN  IF element # NoElement THEN cleared \cup {element} ELSE cleared

\* On a narrow viewport the sidebar loses 'open'; body.style is not touched.
SidebarAfterShow(open, width) == IF width <= Breakpoint THEN FALSE ELSE open

\* history.replaceState(null, null, `#${sectionId}`); every engine that runs
\* this script (it uses async functions) has history.replaceState.
HashAfterReplace(old, sectionId) == sectionId

showSectionPage(p, width, sectionId, element) ==
    [sections |-> SectionsAfterShow(p.sections, sectionId),
     nav      |-> NavAfterShow(p.nav, element),
     hash     |-> HashAfterReplace(p.hash, sectionId),
     open     |-> SidebarAfterShow(p.open, width),
     overflow |-> p.overflow]

showSection(sectionId, element) ==
    /\ phase = "ready"
    /\ Becomes(showSectionPage(Page, innerWidth, sectionId, element))
    /\ Remember("showSection", sectionId, element, FALSE)
    /\ UNCHANGED <<phase, innerWidth, copyVars>>

(***************************************************************************)
(* toggleSidebar()                                                          *)
(***************************************************************************)
toggleSidebarPage(p) ==
    LET open == ~p.open
    IN  [p EXCEPT !.open = open,
                  !.overflow = IF open THEN "hidden" ELSE ""]

toggleSidebar ==
    /\ phase = "ready"
    /\ Becomes(toggleSidebarPage(Page))
    /\ Remember("toggleSidebar", "", NoElement, FALSE)
    /\ UNCHANGED <<phase, innerWidth, copyVars>>

(***************************************************************************)
(* handleOutsideClick(event): target is where the click landed             *)
(***************************************************************************)
handleOutsideClickPageAnyTarget(p, width, target) ==
    IF width <= Breakpoint /\ target # "sidebar" /\ p.open
    THEN [p EXCEPT !.open = FALSE, !.overflow = ""]
    ELSE p

handleOutsideClickPage(p, width, target) ==
    IF /\ width <= Breakpoint
       /\ target # "sidebar"
       /\ target # "toggle"
       /\ p.open
    THEN [p EXCEPT !.open = FALSE, !.overflow = ""]
    ELSE p

handleOutsideClick(target) ==
    /\ phase = "ready"
    /\ Becomes(handleOutsideClickPage(Page, innerWidth, target))
    /\ Remember("click", target, NoElement, FALSE)
    /\ UNCHANGED <<phase, innerWidth, copyVars>>

(***************************************************************************)
(* handleKeyboardNavigation(event)                                          *)
(***************************************************************************)
toLowerCase(key) == IF key = "M" THEN "m" ELSE key

handleKeyboardNavigationPage(p, key, altKey) ==
    LET escaped == IF key = "Escape" /\ p.open
                   THEN [p EXCEPT !.open = FALSE, !.overflow = ""]
                   ELSE p
    IN  IF altKey /\ toLowerCase(key) = "m" THEN toggleSidebarPage(escaped) ELSE escaped

handleKeyboardNavigation(key, altKey) ==
    /\ phase = "ready"
    /\ Becomes(handleKeyboardNavigationPage(Page, key, altKey))
    /\ Remember("keydown", key, NoElement, altKey)
    /\ UNCHANGED <<phase, innerWidth, copyVars>>

(***************************************************************************)
(* handleResize(): the viewport has taken width w                           *)
(***************************************************************************)
handleResizePageAtOrAbove(p, width) ==
    IF width >= Breakpoint THEN [p EXCEPT !.open = FALSE, !.overflow = ""] ELSE p

handleResizePage(p, width) ==
    IF width > Breakpoint THEN [p EXCEPT !.open = FALSE, !.overflow = ""] ELSE p

handleResize(w) ==
    /\ phase = "ready"
    /\ innerWidth' = w
    /\ Becomes(handleResizePage(Page, w))
    /\ Remember("resize", "", NoElement, FALSE)
    /\ UNCHANGED <<phase, copyVars>>

(***************************************************************************)
(* The IntersectionObserver callback of initScrollSpy, for one entry       *)
(***************************************************************************)
RatioThreshold == 50

scrollSpyPageShowsSection(p, sectionId, isIntersecting, ratio) ==
    LET correspondingNav == querySelectorOnclick(sectionId)
    IN  IF isIntersecting /\ ratio > RatioThreshold /\ correspondingNav # NoElement
        THEN [p EXCEPT !.sections = SectionsAfterShow(p.sections, sectionId),
                       !.nav = (p.nav \ NavItems) \cup {correspondingNav},
                       !.hash = HashAfterReplace(p.hash, sectionId)]
        ELSE p

scrollSpyPage(p, sectionId, isIntersecting, ratio) ==
    LET correspondingNav == querySelectorOnclick(sectionId)
    IN  IF isIntersecting /\ ratio > RatioThreshold /\ correspondingNav # NoElement
        THEN [p EXCEPT !.nav = (p.nav \ NavItems) \cup {correspondingNav},
                       !.hash = HashAfterReplace(p.hash, sectionId)]
        ELSE p

scrollSpy(sectionId, isIntersecting, ratio) ==
    /\ phase = "ready"
    /\ Becomes(scrollSpyPage(Page, sectionId, isIntersecting, ratio))
    /\ Remember("scrollSpy", sectionId, NoElement, isIntersecting)
    /\ UNCHANGED <<phase, innerWidth, copyVars>>

(***************************************************************************)
(* DOMContentLoaded: handleInitialLoad(), then the listeners are attached  *)
(***************************************************************************)
handleInitialLoadPage(p, width) ==
    LET targetElement == querySelectorOnclick(p.hash)
    IN  IF p.hash # "" /\ targetElement # NoElement
        THEN showSectionPage(p, width, p.hash, targetElement)
        ELSE p

DOMContentLoaded ==
    /\ phase = "loading"
    /\ phase' = "ready"
    /\ Becomes(handleInitialLoadPage(Page, innerWidth))
    /\ Remember("load", hash, NoElement, FALSE)
    /\ UNCHANGED <<innerWidth, copyVars>>

(***************************************************************************)
(* The copy control.  Its class list is the sequence of the tokens of      *)
(* className; classList.add appends the tokens that are not there yet.     *)
(***************************************************************************)
CopyIcon == "<i class=\"fas fa-copy\"></i>"

CheckIcon == "<i class=\"fas fa-check\"></i>"

WarningIcon == "<i class=\"fas fa-exclamation-triangle\"></i>"

ErrorColor == "#ff6b6b"

CodeText == "npm install proxy-ui"

Contexts == {"code", "noCode", "noContainer"}

MaxPending == 2

MaxLeaked == 1

Has(seq, x) == \E i \in 1..Len(seq) : seq[i] = x

classListAdd(cls, token) == IF Has(cls, token) THEN cls ELSE Append(cls, token)

Quiescent == timers = <<>> /\ inflight = 0

Bump(n) == IF n < MaxPending + 1 THEN n + 1 ELSE n

\* A copyCode call begins: a new burst if the control is at rest.
Started(b) ==
    IF Quiescent
    THEN [pre |-> btn, started |-> 1, shown |-> 0, overlap |-> FALSE, kind |-> "none",
          fallback |-> FALSE]
    ELSE [b EXCEPT !.started = Bump(b.started), !.fallback = FALSE]

\* The call that acts now went through the legacy fallback, or did not.
ViaFallback(b, went) == [b EXCEPT !.fallback = went]

\* A feedback state is put on the control.
Shown(b, kind) ==
    [b EXCEPT !.shown = Bump(b.shown),
              !.overlap = b.overlap \/ timers # <<>>,
              !.kind = kind]

(***************************************************************************)
(* showCopyFeedback(button) and showCopyError(button): the control after   *)
(* the call, and the callback handed to setTimeout                         *)
(***************************************************************************)
showCopyFeedbackButton(b) ==
    [b EXCEPT !.html = CheckIcon,
              !.cls = classListAdd(classListAdd(b.cls, "copied"), "copying")]

showCopyErrorButton(b) ==
    [b EXCEPT !.html = WarningIcon, !.color = ErrorColor, !.border = ErrorColor]

\* The closure keeps originalHTML and originalClass as they were read on entry.
Reversion(kind, b) == [kind |-> kind, html |-> b.html, cls |-> b.cls]

RevertedKeepClass(b, t) ==
    IF t.kind = "error"
    THEN [b EXCEPT !.html = t.html, !.color = "", !.border = ""]
    ELSE [b EXCEPT !.html = t.html]

Reverted(b, t) ==
    IF t.kind = "error"
    THEN [html |-> t.html, cls |-> t.cls, color |-> "", border |-> ""]
    ELSE [b EXCEPT !.html = t.html, !.cls = t.cls]

showCopyFeedback(b) ==
    /\ btn' = showCopyFeedbackButton(btn)
    /\ timers' = Append(timers, Reversion("success", btn))
    /\ burst' = Shown(b, "success")

showCopyError(b) ==
    /\ btn' = showCopyErrorButton(btn)
    /\ timers' = Append(timers, Reversion("error", btn))
    /\ burst' = Shown(b, "error")

(***************************************************************************)
(* copyCode(button), up to its return or its await                          *)
(***************************************************************************)
ExecCommandOutcomes == {"copied", "refused", "throws"}

\* button.closest('.code-container') is null: the querySelector call on it
\* throws, and the catch block shows the error state.
copyCodeNoContainer ==
    /\ btnContext = "noContainer"
    /\ showCopyError(Started(burst))
    /\ UNCHANGED <<inflight, clipboard, textAreas>>

\* The container holds no <code>: logged, then return.
copyCodeNoCodeBlock ==
    /\ btnContext = "noCode"
    /\ burst' = Started(burst)
    /\ UNCHANGED <<btn, timers, inflight, clipboard, textAreas>>

\* await navigator.clipboard.writeText(codeText)
copyCodeAwaitWrite ==
    /\ btnContext = "code"
    /\ hasClipboardApi
    /\ inflight' = inflight + 1
    /\ burst' = Started(burst)
    /\ UNCHANGED <<btn, timers, clipboard, textAreas>>

\* The fallback: a <textarea> is appended, selected, execCommand('copy') is
\* issued, the <textarea> is removed.  execCommand may copy, may return false,
\* may throw; a throw skips the removal and lands in the catch block.
copyCodeFallback(outcome) ==
    /\ btnContext = "code"
    /\ ~hasClipboardApi
    /\ clipboard' = IF outcome = "copied" THEN CodeText ELSE clipboard
    /\ IF outcome = "throws"
       THEN /\ textAreas < MaxLeaked
            /\ textAreas' = textAreas + 1
            /\ showCopyError(ViaFallback(Started(burst), TRUE))
       ELSE /\ textAreas' = textAreas
            /\ showCopyFeedback(ViaFallback(Started(burst), TRUE))
    /\ UNCHANGED inflight

copyCode ==
    /\ Len(timers) + inflight < MaxPending
    /\ \/ copyCodeNoContainer
       \/ copyCodeNoCodeBlock
       \/ copyCodeAwaitWrite
       \/ \E outcome \in ExecCommandOutcomes : copyCodeFallback(outcome)
    /\ UNCHANGED <<btnContext, hasClipboardApi, uiVars>>

\* The promise of writeText settles and copyCode resumes after its await.
copyCodeResume(fulfilled) ==
    /\ inflight > 0
    /\ inflight' = inflight - 1
    /\ IF fulfilled
       THEN /\ clipboard' = CodeText
            /\ showCopyFeedback(ViaFallback(burst, FALSE))
       ELSE /\ clipboard' = clipboard
            /\ showCopyError(ViaFallback(burst, FALSE))
    /\ UNCHANGED <<textAreas, btnContext, hasClipboardApi, uiVars>>

\* The oldest pending timer fires: all delays are equal, so timers fire in
\* the order they were set.
timerFires ==
    /\ timers # <<>>
    /\ btn' = Reverted(btn, Head(timers))
    /\ timers' = Tail(timers)
    /\ UNCHANGED <<inflight, clipboard, textAreas, btnContext, hasClipboardApi,
                   burst, uiVars>>

(***************************************************************************)
(* The page as authored and loaded: the default section and its navigation *)
(* item are active, the drawer is closed, the background scrolls, the copy *)
(* control shows its icon and nothing is pending.                          *)
(***************************************************************************)
PageLoading ==
    /\ phase = "loading"
    /\ activeSections = {DefaultSection}
    /\ activeNav = {DefaultNav}
    /\ sidebarOpen = FALSE
    /\ bodyOverflow = ""
    /\ last = [op |-> "none", key |-> "", el |-> NoElement, alt |-> FALSE]
    /\ toggleRun = <<>>

CopyAtRest ==
    /\ btn = [html |-> CopyIcon, cls |-> <<"copy-btn">>, color |-> "", border |-> ""]
    /\ timers = <<>>
    /\ inflight = 0
    /\ clipboard = ""
    /\ textAreas = 0
    /\ burst = [pre |-> btn, started |-> 0, shown |-> 0, overlap |-> FALSE,
                kind |-> "none", fallback |-> FALSE]

Init ==
    /\ PageLoading
    /\ hash \in Hashes
    /\ innerWidth \in Widths
    /\ CopyAtRest
    /\ btnContext = "code"
    /\ hasClipboardApi = TRUE

Ratios == {40, RatioThreshold, 60}

Next ==
    \/ DOMContentLoaded
    \/ \E sectionId \in Keys, element \in NavItems \cup {NoElement} :
           showSection(sectionId, element)
    \/ toggleSidebar
    \/ \E target \in ClickTargets : handleOutsideClick(target)
    \/ \E key \in KeyNames, altKey \in BOOLEAN : handleKeyboardNavigation(key, altKey)
    \/ \E w \in Widths : handleResize(w)
    \/ \E sectionId \in SectionIds, isIntersecting \in BOOLEAN, ratio \in Ratios :
           scrollSpy(sectionId, isIntersecting, ratio)

Spec == Init /\ [][Next]_vars

\* The copy control on its own, in each surrounding and with or without the
\* clipboard API; the rest of the page stays as loaded.
InitCopy ==
    /\ PageLoading
    /\ hash = ""
    /\ innerWidth \in {1024}
    /\ CopyAtRest
    /\ btnContext \in Contexts
    /\ hasClipboardApi \in BOOLEAN

NextCopy ==
    \/ copyCode
    \/ \E fulfilled \in BOOLEAN : copyCodeResume(fulfilled)
    \/ timerFires

SpecCopy == InitCopy /\ [][NextCopy]_vars

(***************************************************************************)
(* Claims about section selection                                           *)
(***************************************************************************)
NavOf(sectionId) == {n \in NavItems : NavTarget[n] = sectionId}

\* C1: showSection with a key that matches no section leaves the section that
\* was visible before the call visible.
C1_UnknownKeyKeepsSection ==
    [][\A sectionId \in UnknownKeys, element \in NavItems \cup {NoElement} :
           showSection(sectionId, element) => activeSections' = activeSections]_vars

\* C2: after showSection(S, _) with S the id of a section, exactly one section
\* carries 'active', and it is S.
C2_ExactlyTargetVisible ==
    (last.op = "showSection" /\ last.key \in SectionIds)
        => (Cardinality(activeSections) = 1 /\ activeSections = {last.key})

\* C2 witness: a section other than the authored default was selected.
C2_Witness ==
    /\ last.op = "showSection"
    /\ last.key = "faq"
    /\ activeSections = {"faq"}

HashNamesSectionWithNav(h) == h \in SectionIds /\ NavOf(h) # {}

C10_InitialLoadFallsBack ==
    (last.op = "load" /\ ~HashNamesSectionWithNav(last.key))
        => (activeSections = {DefaultSection} /\ activeNav = {DefaultNav})

(***************************************************************************)
(* Claims about the sidebar                                                 *)
(***************************************************************************)
ScrollLocked == bodyOverflow = "hidden"

\* C4: in every reachable state the background scroll lock is engaged exactly
\* when the sidebar is open.
C4_LockIffOpen == ScrollLocked <=> sidebarOpen

\* C7: two toggleSidebar calls with nothing in between restore the open state
\* and the scroll lock the first call found.
C7_ToggleTwiceRestores ==
    Len(toggleRun) = 2 => Sidebar(Page) = toggleRun[1]

\* C8: a resize handled above the breakpoint leaves the sidebar closed and the
\* scroll lock released whatever they were; a resize handled at or below the
\* breakpoint changes neither.
C8_ResizeResets ==
    [][\A w \in Widths :
           handleResize(w) =>
               IF w > Breakpoint
               THEN ~sidebarOpen' /\ bodyOverflow' = ""
               ELSE sidebarOpen' = sidebarOpen /\ bodyOverflow' = bodyOverflow]_vars

\* C8 witness: a resize to a wide viewport has just been handled.
C8_Witness ==
    /\ last.op = "resize"
    /\ innerWidth > Breakpoint
    /\ ~sidebarOpen
    /\ bodyOverflow = ""

\* C8 witness, other branch: a resize at the breakpoint left the drawer open.
C8_WitnessNarrow ==
    /\ last.op = "resize"
    /\ innerWidth = Breakpoint
    /\ sidebarOpen
    /\ ScrollLocked

\* C9: whenever the viewport is wider than the breakpoint the sidebar is not
\* open.
C9_ClosedAboveBreakpoint == innerWidth > Breakpoint => ~sidebarOpen

(***************************************************************************)
(* Claims about the copy control                                            *)
(***************************************************************************)
MarkupAsBefore == btn.html = burst.pre.html /\ btn.cls = burst.pre.cls

\* C5: two copyCode calls on the control, the second one's feedback starting
\* while the first one's timer is pending: once both timers have fired the
\* markup and the class list are those from before the first call.
C5_RapidPairRestores ==
    (Quiescent /\ burst.started = 2 /\ burst.shown = 2 /\ burst.overlap)
        => MarkupAsBefore

\* C6: one copyCode call with nothing else pending on the control: once its
\* timer has fired the markup and the class list are those from before the
\* call, after the success state and after the error state alike.
C6_SingleCallRoundTrip ==
    (Quiescent /\ burst.started = 1 /\ burst.shown = 1) => MarkupAsBefore

\* C6 witness: a lone failed copy has shown the error state and reverted.
C6_Witness ==
    /\ Quiescent
    /\ burst.started = 1
    /\ burst.shown = 1
    /\ burst.kind = "error"
    /\ btn.html = CopyIcon
    /\ btn.cls = <<"copy-btn">>
    /\ clipboard = ""

\* C6 witness, success path: a lone copy has shown the check mark and reverted.
C6_WitnessSuccess ==
    /\ Quiescent
    /\ burst.started = 1
    /\ burst.shown = 1
    /\ burst.kind = "success"
    /\ btn.html = CopyIcon
    /\ btn.cls = <<"copy-btn">>
    /\ clipboard = CodeText

\* C11: copyCode on a control with no code block to be found (no enclosing
\* container, or a container without a code element) aborts silently: the
\* clipboard, the control and the pending timers are what they were.
C11_NoCodeBlockAborts ==
    [][(copyCode /\ btnContext # "code")
           => (btn' = btn /\ timers' = timers /\ clipboard' = clipboard)]_vars

\* The clipboard write was rejected, or execCommand threw in the fallback.
ClipboardFailure ==
    \/ copyCodeResume(FALSE)
    \/ (copyCode /\ copyCodeFallback("throws"))

ErrorStateOn(b) == b.html = WarningIcon /\ b.color = ErrorColor /\ b.border = ErrorColor

ErrorTraceOn(b) == b.html = WarningIcon \/ b.color = ErrorColor \/ b.border = ErrorColor

\* C12, first half: a clipboard failure ends in the catch block, with the
\* control in the error state and its reversion scheduled.
C12_FailureCaught ==
    [][ClipboardFailure
           => /\ ErrorStateOn(btn')
              /\ timers' = Append(timers, Reversion("error", btn))]_vars

\* C12: a clipboard failure is caught: the call ends with the control in the
\* error state and its reversion scheduled, and when that reversion runs the
\* error state has left the control.
C12_FailureCaughtAndReverted ==
    [][/\ ClipboardFailure
           => /\ ErrorStateOn(btn')
              /\ timers' = Append(timers, Reversion("error", btn))
       /\ (timerFires /\ btnContext = "code" /\ Head(timers).kind = "error")
           => ~ErrorTraceOn(btn')]_vars

\* C14: when clipboard.writeText exists and its promise is rejected, copyCode
\* goes through the legacy fallback before it shows anything, so that the
\* error state appears only after the fallback has failed as well.
C14_RejectionTriesFallback ==
    [][copyCodeResume(FALSE) => burst'.fallback]_vars

\* C15: the control never carries the success emphasis (the check icon or the
\* class 'copied') together with the error styling (the warning icon or the
\* error colour).
SuccessTraceOn(b) == b.html = CheckIcon \/ Has(b.cls, "copied")

C15_FeedbackStatesExclusive == ~(SuccessTraceOn(btn) /\ ErrorTraceOn(btn))

\* C19: whenever copyCode has run the legacy fallback, whether execCommand
\* copied, refused or threw, no injected <textarea> is left in the document.
C19_TextAreaRemoved == burst.fallback => textAreas = 0

(***************************************************************************)
(* Claims about navigation state and the document click                    *)
(***************************************************************************)
\* C13: when showSection (with or without an element), the scroll-spy
\* callback or the initial load has run, exactly one navigation item is
\* active and it is the item of the section that is visible.
C13_OneNavForVisibleSection ==
    last.op \in {"showSection", "scrollSpy", "load"}
        => \E n \in NavItems : activeNav = {n} /\ activeSections = {NavTarget[n]}

\* C16: showSection with a key that matches no section changes neither the
\* active navigation item, nor the URL hash, nor the sidebar.
C16_UnknownKeyChangesNothing ==
    [][\A sectionId \in UnknownKeys, element \in NavItems \cup {NoElement} :
           showSection(sectionId, element)
               => /\ activeNav' = activeNav
                  /\ hash' = hash
                  /\ sidebarOpen' = sidebarOpen]_vars

C17_WitnessNoNav ==
    /\ last.op = "scrollSpy"
    /\ last.key = "about"
    /\ last.alt
    /\ activeNav = {"nav-api"}
    /\ hash = "api"

\* C18: a document click closes the sidebar and releases the scroll lock
\* exactly when the viewport is at most the breakpoint wide, the sidebar is
\* open and the click landed outside the sidebar and its toggle; any other
\* click leaves the sidebar and the scroll lock as they were.
C18_OutsideClickCloses ==
    [][\A target \in ClickTargets :
           (last'.op = "click" /\ last'.key = target /\ handleOutsideClick(target))
               => IF innerWidth <= Breakpoint /\ sidebarOpen /\ target = "content"
                  THEN ~sidebarOpen' /\ bodyOverflow' = ""
                  ELSE sidebarOpen' = sidebarOpen /\ bodyOverflow' = bodyOverflow]_vars

\* C18 witness: a click on the content, on a narrow viewport, with the drawer
\* closed and the background released afterwards.
C18_Witness ==
    /\ last.op = "click"
    /\ last.key = "content"
    /\ innerWidth <= Breakpoint
    /\ ~sidebarOpen
    /\ bodyOverflow = ""

\* C18 witness, other branch: a click on the toggle left the drawer open.
C18_WitnessToggle ==
    /\ last.op = "click"
    /\ last.key = "toggle"
    /\ innerWidth <= Breakpoint
    /\ sidebarOpen
    /\ ScrollLocked

====
